---- MODULE Spec2Model ----
(***************************************************************************)
(* Model of the structured-data comparison engine of src/app.py:           *)
(* extraction of structured data from an HTML document, the type set and   *)
(* the flattened index of an inventory, the schema.org example resolver    *)
(* and the comparison fold compare_structured_data.                        *)
(*                                                                         *)
(* A Python str is a sequence of one-character strings, so that the        *)
(* substring tests, lower(), replace() and split() of the source are       *)
(* computed and not assumed.  A JSON / Python value is a record tagged by  *)
(* its kind: "str", "num", "null", "list" or "obj"; a dict is the ordered  *)
(* sequence of its items.  A call that can raise returns a record with a   *)
(* field raised.                                                           *)
(***************************************************************************)
EXTENDS Integers, Sequences, FiniteSets, TLC

-----------------------------------------------------------------------------
(* Python str operations *)

LowerChar ==
    "A" :> "a" @@ "B" :> "b" @@ "C" :> "c" @@ "D" :> "d" @@ "E" :> "e" @@ "F" :> "f" @@ "G" :> "g" @@ "H" :> "h" @@ "I" :> "i" @@ "J" :> "j" @@ "K" :> "k" @@ "L" :> "l" @@ "M" :> "m" @@ "N" :> "n" @@ "O" :> "o" @@ "P" :> "p" @@ "Q" :> "q" @@ "R" :> "r" @@ "S" :> "s" @@ "T" :> "t" @@ "U" :> "u" @@ "V" :> "v" @@ "W" :> "w" @@ "X" :> "x" @@ "Y" :> "y" @@ "Z" :> "z"

\* str.lower()
Lower(s) ==
    [i \in 1..Len(s) |-> IF s[i] \in DOMAIN LowerChar THEN LowerChar[s[i]] ELSE s[i]]

\* a in b, for two str
IsSubstr(a, b) ==
    \E i \in 0..(Len(b) - Len(a)) : \A j \in 1..Len(a) : b[i + j] = a[j]

\* s.startswith(p)
StartsWith(s, p) ==
    Len(s) >= Len(p) /\ \A j \in 1..Len(p) : s[j] = p[j]

RECURSIVE Replace(_, _)
\* s.replace(old, ''): every non-overlapping occurrence, left to right
Replace(s, old) ==
    IF Len(s) = 0 THEN <<>>
    ELSE IF StartsWith(s, old) THEN Replace(SubSeq(s, Len(old) + 1, Len(s)), old)
    ELSE <<Head(s)>> \o Replace(Tail(s), old)

RECURSIVE LastSegment(_, _)
\* s.split(sep)[-1] for a one-character sep
LastSegment(s, sep) ==
    IF \E i \in 1..Len(s) : s[i] = sep
    THEN LastSegment(Tail(s), sep)
    ELSE s

RECURSIVE Strip(_)
\* str.strip() of blanks
Strip(s) ==
    IF Len(s) = 0 THEN s
    ELSE IF Head(s) = " " THEN Strip(Tail(s))
    ELSE IF s[Len(s)] = " " THEN Strip(SubSeq(s, 1, Len(s) - 1))
    ELSE s

-----------------------------------------------------------------------------
(* JSON / Python values *)

JStr(s) == [kind |-> "str", s |-> s]

JNum(n) == [kind |-> "num", n |-> n]

\* JSON null and Python None
JNull == [kind |-> "null"]

JList(l) == [kind |-> "list", l |-> l]

\* a dict: the ordered sequence of its items [k |-> key, v |-> value]
JObj(items) == [kind |-> "obj", items |-> items]

Item(k, v) == [k |-> k, v |-> v]

IsStr(v) == v.kind = "str"

\* hash(v) is defined: str, int and None are hashable, list and dict are not
Hashable(v) == v.kind \in {"str", "num", "null"}

\* truth value of a Python object
Truthy(v) ==
    CASE v.kind = "str" -> Len(v.s) > 0
      [] v.kind = "num" -> v.n # 0
      [] v.kind = "null" -> FALSE
      [] v.kind = "list" -> Len(v.l) > 0
      [] v.kind = "obj" -> Len(v.items) > 0

\* key in d, for a dict d
HasKey(d, k) == \E i \in 1..Len(d.items) : d.items[i].k = k

\* d[k], for a dict d that has k
GetKey(d, k) == d.items[CHOOSE i \in 1..Len(d.items) : d.items[i].k = k].v

\* d[k] = v: a new key is appended, an existing key keeps its position
SetKey(d, k, v) ==
    IF HasKey(d, k)
    THEN JObj([i \in 1..Len(d.items) |-> IF d.items[i].k = k THEN Item(k, v) ELSE d.items[i]])
    ELSE JObj(Append(d.items, Item(k, v)))

\* list(d.keys())
Keys(d) == [i \in 1..Len(d.items) |-> d.items[i].k]

\* json.dumps(v, indent=2, ensure_ascii=False): the text of v, every key and
\* value of v in it, in order; a str, never None
Dumps(v) == [kind |-> "text", of |-> v]

AtType == <<"@","t","y","p","e">>

AtContext == <<"@","c","o","n","t","e","x","t">>

-----------------------------------------------------------------------------
(* get_schema_org_example: the canonical table and its lookup *)

\* The table examples, in declaration order.  Every entry of the source is a
\* dict that starts with "@context": "https://schema.org" and "@type"; an entry
\* is modelled by its key and its "@type", the rest of its fields by the key.
examples ==
    <<
       [key |-> <<"T","h","i","n","g">>,
        type |-> <<"T","h","i","n","g">>],
       [key |-> <<"A","c","t","i","o","n">>,
        type |-> <<"A","c","t","i","o","n">>],
       [key |-> <<"C","o","n","s","u","m","e","A","c","t","i","o","n">>,
        type |-> <<"C","o","n","s","u","m","e","A","c","t","i","o","n">>],
       [key |-> <<"W","a","t","c","h","A","c","t","i","o","n">>,
        type |-> <<"W","a","t","c","h","A","c","t","i","o","n">>],
       [key |-> <<"R","e","a","d","A","c","t","i","o","n">>,
        type |-> <<"R","e","a","d","A","c","t","i","o","n">>],
       [key |-> <<"B","u","y","A","c","t","i","o","n">>,
        type |-> <<"B","u","y","A","c","t","i","o","n">>],
       [key |-> <<"S","e","a","r","c","h","A","c","t","i","o","n">>,
        type |-> <<"S","e","a","r","c","h","A","c","t","i","o","n">>],
       [key |-> <<"R","e","v","i","e","w","A","c","t","i","o","n">>,
        type |-> <<"R","e","v","i","e","w","A","c","t","i","o","n">>],
       [key |-> <<"S","h","a","r","e","A","c","t","i","o","n">>,
        type |-> <<"S","h","a","r","e","A","c","t","i","o","n">>],
       [key |-> <<"C","r","e","a","t","i","v","e","W","o","r","k">>,
        type |-> <<"C","r","e","a","t","i","v","e","W","o","r","k">>],
       [key |-> <<"A","r","t","i","c","l","e">>,
        type |-> <<"A","r","t","i","c","l","e">>],
       [key |-> <<"B","l","o","g","P","o","s","t","i","n","g">>,
        type |-> <<"B","l","o","g","P","o","s","t","i","n","g">>],
       [key |-> <<"N","e","w","s","A","r","t","i","c","l","e">>,
        type |-> <<"N","e","w","s","A","r","t","i","c","l","e">>],
       [key |-> <<"R","e","c","i","p","e">>,
        type |-> <<"R","e","c","i","p","e">>],
       [key |-> <<"B","o","o","k">>,
        type |-> <<"B","o","o","k">>],
       [key |-> <<"M","o","v","i","e">>,
        type |-> <<"M","o","v","i","e">>],
       [key |-> <<"V","i","d","e","o","O","b","j","e","c","t">>,
        type |-> <<"V","i","d","e","o","O","b","j","e","c","t">>],
       [key |-> <<"A","u","d","i","o","O","b","j","e","c","t">>,
        type |-> <<"A","u","d","i","o","O","b","j","e","c","t">>],
       [key |-> <<"I","m","a","g","e","O","b","j","e","c","t">>,
        type |-> <<"I","m","a","g","e","O","b","j","e","c","t">>],
       [key |-> <<"C","o","u","r","s","e">>,
        type |-> <<"C","o","u","r","s","e">>],
       [key |-> <<"D","a","t","a","s","e","t">>,
        type |-> <<"D","a","t","a","s","e","t">>],
       [key |-> <<"W","e","b","S","i","t","e">>,
        type |-> <<"W","e","b","S","i","t","e">>],
       [key |-> <<"W","e","b","P","a","g","e">>,
        type |-> <<"W","e","b","P","a","g","e">>],
       [key |-> <<"S","o","f","t","w","a","r","e","A","p","p","l","i","c","a","t","i","o","n">>,
        type |-> <<"S","o","f","t","w","a","r","e","A","p","p","l","i","c","a","t","i","o","n">>],
       [key |-> <<"T","V","S","e","r","i","e","s">>,
        type |-> <<"T","V","S","e","r","i","e","s">>],
       [key |-> <<"P","o","d","c","a","s","t">>,
        type |-> <<"P","o","d","c","a","s","t">>],
       [key |-> <<"E","v","e","n","t">>,
        type |-> <<"E","v","e","n","t">>],
       [key |-> <<"M","u","s","i","c","E","v","e","n","t">>,
        type |-> <<"M","u","s","i","c","E","v","e","n","t">>],
       [key |-> <<"S","p","o","r","t","s","E","v","e","n","t">>,
        type |-> <<"S","p","o","r","t","s","E","v","e","n","t">>],
       [key |-> <<"B","u","s","i","n","e","s","s","E","v","e","n","t">>,
        type |-> <<"B","u","s","i","n","e","s","s","E","v","e","n","t">>],
       [key |-> <<"T","h","e","a","t","e","r","E","v","e","n","t">>,
        type |-> <<"T","h","e","a","t","e","r","E","v","e","n","t">>],
       [key |-> <<"F","e","s","t","i","v","a","l">>,
        type |-> <<"F","e","s","t","i","v","a","l">>],
       [key |-> <<"O","r","g","a","n","i","z","a","t","i","o","n">>,
        type |-> <<"O","r","g","a","n","i","z","a","t","i","o","n">>],
       [key |-> <<"L","o","c","a","l","B","u","s","i","n","e","s","s">>,
        type |-> <<"L","o","c","a","l","B","u","s","i","n","e","s","s">>],
       [key |-> <<"R","e","s","t","a","u","r","a","n","t">>,
        type |-> <<"R","e","s","t","a","u","r","a","n","t">>],
       [key |-> <<"S","t","o","r","e">>,
        type |-> <<"S","t","o","r","e">>],
       [key |-> <<"H","o","s","p","i","t","a","l">>,
        type |-> <<"H","o","s","p","i","t","a","l">>],
       [key |-> <<"S","c","h","o","o","l">>,
        type |-> <<"S","c","h","o","o","l">>],
       [key |-> <<"U","n","i","v","e","r","s","i","t","y">>,
        type |-> <<"U","n","i","v","e","r","s","i","t","y">>],
       [key |-> <<"N","G","O">>,
        type |-> <<"N","G","O">>],
       [key |-> <<"P","e","r","s","o","n">>,
        type |-> <<"P","e","r","s","o","n">>],
       [key |-> <<"P","l","a","c","e">>,
        type |-> <<"P","l","a","c","e">>],
       [key |-> <<"T","o","u","r","i","s","t","A","t","t","r","a","c","t","i","o","n">>,
        type |-> <<"T","o","u","r","i","s","t","A","t","t","r","a","c","t","i","o","n">>],
       [key |-> <<"A","c","c","o","m","m","o","d","a","t","i","o","n">>,
        type |-> <<"A","c","c","o","m","m","o","d","a","t","i","o","n">>],
       [key |-> <<"H","o","t","e","l">>,
        type |-> <<"H","o","t","e","l">>],
       [key |-> <<"P","r","o","d","u","c","t">>,
        type |-> <<"P","r","o","d","u","c","t">>],
       [key |-> <<"S","e","r","v","i","c","e">>,
        type |-> <<"S","e","r","v","i","c","e">>],
       [key |-> <<"B","r","a","n","d">>,
        type |-> <<"B","r","a","n","d">>],
       [key |-> <<"R","a","t","i","n","g">>,
        type |-> <<"R","a","t","i","n","g">>],
       [key |-> <<"R","e","v","i","e","w">>,
        type |-> <<"R","e","v","i","e","w">>],
       [key |-> <<"A","g","g","r","e","g","a","t","e","R","a","t","i","n","g">>,
        type |-> <<"A","g","g","r","e","g","a","t","e","R","a","t","i","n","g">>],
       [key |-> <<"C","o","n","t","a","c","t","P","o","i","n","t">>,
        type |-> <<"C","o","n","t","a","c","t","P","o","i","n","t">>],
       [key |-> <<"P","o","s","t","a","l","A","d","d","r","e","s","s">>,
        type |-> <<"P","o","s","t","a","l","A","d","d","r","e","s","s">>],
       [key |-> <<"G","e","o","C","o","o","r","d","i","n","a","t","e","s">>,
        type |-> <<"G","e","o","C","o","o","r","d","i","n","a","t","e","s">>],
       [key |-> <<"O","f","f","e","r">>,
        type |-> <<"O","f","f","e","r">>],
       [key |-> <<"J","o","b","P","o","s","t","i","n","g">>,
        type |-> <<"J","o","b","P","o","s","t","i","n","g">>],
       [key |-> <<"F","A","Q","P","a","g","e">>,
        type |-> <<"F","A","Q","P","a","g","e">>],
       [key |-> <<"H","o","w","T","o">>,
        type |-> <<"H","o","w","T","o">>],
       [key |-> <<"B","r","e","a","d","c","r","u","m","b","L","i","s","t">>,
        type |-> <<"B","r","e","a","d","c","r","u","m","b","L","i","s","t">>],
       [key |-> <<"I","t","e","m","L","i","s","t">>,
        type |-> <<"I","t","e","m","L","i","s","t">>],
       [key |-> <<"L","i","s","t","I","t","e","m">>,
        type |-> <<"L","i","s","t","I","t","e","m">>],
       [key |-> <<"M","e","d","i","c","a","l","E","n","t","i","t","y">>,
        type |-> <<"M","e","d","i","c","a","l","E","n","t","i","t","y">>],
       [key |-> <<"M","e","d","i","c","a","l","C","o","n","d","i","t","i","o","n">>,
        type |-> <<"M","e","d","i","c","a","l","C","o","n","d","i","t","i","o","n">>],
       [key |-> <<"D","r","u","g">>,
        type |-> <<"D","r","u","g">>],
       [key |-> <<"M","e","d","i","c","a","l","P","r","o","c","e","d","u","r","e">>,
        type |-> <<"M","e","d","i","c","a","l","P","r","o","c","e","d","u","r","e">>],
       [key |-> <<"S","o","c","i","a","l","M","e","d","i","a","P","o","s","t","i","n","g">>,
        type |-> <<"S","o","c","i","a","l","M","e","d","i","a","P","o","s","t","i","n","g">>],
       [key |-> <<"V","e","h","i","c","l","e">>,
        type |-> <<"V","e","h","i","c","l","e">>],
       [key |-> <<"C","a","r">>,
        type |-> <<"C","a","r">>],
       [key |-> <<"R","e","a","l","E","s","t","a","t","e","L","i","s","t","i","n","g">>,
        type |-> <<"R","e","a","l","E","s","t","a","t","e","L","i","s","t","i","n","g">>],
       [key |-> <<"H","o","u","s","e">>,
        type |-> <<"H","o","u","s","e">>],
       [key |-> <<"A","p","a","r","t","m","e","n","t">>,
        type |-> <<"A","p","a","r","t","m","e","n","t">>],
       [key |-> <<"S","p","o","r","t","s","T","e","a","m">>,
        type |-> <<"S","p","o","r","t","s","T","e","a","m">>],
       [key |-> <<"S","p","o","r","t","s","O","r","g","a","n","i","z","a","t","i","o","n">>,
        type |-> <<"S","p","o","r","t","s","O","r","g","a","n","i","z","a","t","i","o","n">>],
       [key |-> <<"G","a","m","e">>,
        type |-> <<"G","a","m","e">>],
       [key |-> <<"V","i","d","e","o","G","a","m","e">>,
        type |-> <<"V","i","d","e","o","G","a","m","e">>],
       [key |-> <<"M","u","s","i","c","G","r","o","u","p">>,
        type |-> <<"M","u","s","i","c","G","r","o","u","p">>],
       [key |-> <<"M","u","s","i","c","A","l","b","u","m">>,
        type |-> <<"M","u","s","i","c","A","l","b","u","m">>],
       [key |-> <<"M","u","s","i","c","R","e","c","o","r","d","i","n","g">>,
        type |-> <<"M","u","s","i","c","R","e","c","o","r","d","i","n","g">>],
       [key |-> <<"F","i","n","a","n","c","i","a","l","P","r","o","d","u","c","t">>,
        type |-> <<"F","i","n","a","n","c","i","a","l","P","r","o","d","u","c","t">>],
       [key |-> <<"B","a","n","k","A","c","c","o","u","n","t">>,
        type |-> <<"B","a","n","k","A","c","c","o","u","n","t">>],
       [key |-> <<"L","o","a","n","O","r","C","r","e","d","i","t">>,
        type |-> <<"L","o","a","n","O","r","C","r","e","d","i","t">>],
       [key |-> <<"G","o","v","e","r","n","m","e","n","t","O","r","g","a","n","i","z","a","t","i","o","n">>,
        type |-> <<"G","o","v","e","r","n","m","e","n","t","O","r","g","a","n","i","z","a","t","i","o","n">>],
       [key |-> <<"G","o","v","e","r","n","m","e","n","t","B","u","i","l","d","i","n","g">>,
        type |-> <<"G","o","v","e","r","n","m","e","n","t","B","u","i","l","d","i","n","g">>],
       [key |-> <<"O","p","e","n","G","r","a","p","h">>,
        type |-> <<"W","e","b","P","a","g","e">>],
       [key |-> <<"T","w","i","t","t","e","r","C","a","r","d">>,
        type |-> <<"W","e","b","P","a","g","e">>],
       [key |-> <<"M","e","t","a","T","a","g","s">>,
        type |-> <<"W","e","b","P","a","g","e">>]
    >>

SchemaOrgContext == <<"h","t","t","p","s",":","/","/","s","c","h","e","m","a",".","o","r","g">>

\* examples[key] for the i-th entry: its @context and @type, and the remaining
\* fields of the entry, which are named by the entry's key
ExampleDoc(i) ==
    [kind |-> "obj",
     items |-> <<Item(AtContext, JStr(SchemaOrgContext)),
                 Item(AtType, JStr(examples[i].type))>>,
     entry |-> examples[i].key]

\* a faulty generic example: the type is written in lower case
GenericExampleLowered(data_type) ==
    JObj(<<Item(AtContext, JStr(SchemaOrgContext)),
           Item(AtType, JStr(Lower(data_type))),
           Item(<<"n","a","m","e">>, JStr(<<"E","x","e","m","p","l","e"," ","d","e"," ">> \o data_type)),
           Item(<<"d","e","s","c","r","i","p","t","i","o","n">>, JStr(<<"D","e","s","c","r","i","p","t","i","o","n"," ","g","é","n","é","r","i","q","u","e"," ","p","o","u","r"," ","l","e"," ","t","y","p","e"," ">> \o data_type)),
           Item(<<"u","r","l">>, JStr(<<"h","t","t","p","s",":","/","/","w","w","w",".","e","x","a","m","p","l","e",".","c","o","m">>))>>)

\* the dict generic_example
GenericExample(data_type) ==
    JObj(<<Item(AtContext, JStr(SchemaOrgContext)),
           Item(AtType, JStr(data_type)),
           Item(<<"n","a","m","e">>, JStr(<<"E","x","e","m","p","l","e"," ","d","e"," ">> \o data_type)),
           Item(<<"d","e","s","c","r","i","p","t","i","o","n">>, JStr(<<"D","e","s","c","r","i","p","t","i","o","n"," ","g","é","n","é","r","i","q","u","e"," ","p","o","u","r"," ","l","e"," ","t","y","p","e"," ">> \o data_type)),
           Item(<<"u","r","l">>, JStr(<<"h","t","t","p","s",":","/","/","w","w","w",".","e","x","a","m","p","l","e",".","c","o","m">>))>>)

\* key.lower() of every table key, in table order
LowerKeys == [i \in 1..Len(examples) |-> Lower(examples[i].key)]

\* the first of the table entries hits in the order of the table, 0 when there
\* is none: the entry at which a loop over examples.keys() returns
FirstKey(hits) ==
    IF hits = {} THEN 0 ELSE CHOOSE i \in hits : \A j \in hits : i <= j

\* a faulty lookup: the partial match is tried first
ResolveDocPartialFirst(data_type) ==
    LET data_type_lower == Lower(data_type)
        partial == {i \in 1..Len(examples) :
                       \/ IsSubstr(data_type_lower, LowerKeys[i])
                       \/ IsSubstr(LowerKeys[i], data_type_lower)}
        p == FirstKey(partial)
    IN  IF p # 0 THEN ExampleDoc(p) ELSE GenericExample(data_type)

\* a faulty resolver: the partial search compares without lower()
ResolveDocPartialCased(data_type) ==
    LET data_type_lower == Lower(data_type)
        exact == {i \in 1..Len(examples) : examples[i].key = data_type}
        nocase == {i \in 1..Len(examples) : LowerKeys[i] = data_type_lower}
        partial == {i \in 1..Len(examples) :
                       \/ IsSubstr(data_type, examples[i].key)
                       \/ IsSubstr(examples[i].key, data_type)}
        e == FirstKey(exact)
        n == FirstKey(nocase)
        p == FirstKey(partial)
    IN  IF e # 0 THEN ExampleDoc(e)
        ELSE IF n # 0 THEN ExampleDoc(n)
        ELSE IF p # 0 THEN ExampleDoc(p)
        ELSE GenericExample(data_type)

\* get_schema_org_example(data_type) for a str data_type: the dict that is dumped
ResolveDoc(data_type) ==
    LET data_type_lower == Lower(data_type)
        exact == {i \in 1..Len(examples) : examples[i].key = data_type}
        nocase == {i \in 1..Len(examples) : LowerKeys[i] = data_type_lower}
        partial == {i \in 1..Len(examples) :
                       \/ IsSubstr(data_type_lower, LowerKeys[i])
                       \/ IsSubstr(LowerKeys[i], data_type_lower)}
        e == FirstKey(exact)
        n == FirstKey(nocase)
        p == FirstKey(partial)
    IN  IF e # 0 THEN ExampleDoc(e)
        ELSE IF n # 0 THEN ExampleDoc(n)
        ELSE IF p # 0 THEN ExampleDoc(p)
        ELSE GenericExample(data_type)

\* get_schema_org_example(data_type): data_type.lower() raises AttributeError
\* when data_type is not a str
get_schema_org_example(data_type) ==
    IF IsStr(data_type)
    THEN [raised |-> FALSE, val |-> Dumps(ResolveDoc(data_type.s))]
    ELSE [raised |-> TRUE]

-----------------------------------------------------------------------------
(* An inventory (the dict structured_data): the ordered sequence of its items *)
(* [k |-> category, v |-> data_list], data_list a sequence of values.         *)

Ok(v) == [raised |-> FALSE, val |-> v]

Raise == [raised |-> TRUE]

\* '@type' in data: key test on a dict, substring test on a str, element test
\* on a list, TypeError on an int or None
ContainsAtType(data) ==
    CASE data.kind = "obj" -> Ok(HasKey(data, AtType))
      [] data.kind = "str" -> Ok(IsSubstr(AtType, data.s))
      [] data.kind = "list" -> Ok(\E i \in 1..Len(data.l) : data.l[i] = JStr(AtType))
      [] OTHER -> Raise

\* a faulty inner loop: the category is added for every record
RecordTypesWithCategory(category, data) ==
    LET c == ContainsAtType(data)
    IN  IF c.raised THEN Raise
        ELSE IF c.val
        THEN IF data.kind # "obj" THEN Raise
             ELSE LET data_type == GetKey(data, AtType)
                  IN  IF data_type.kind = "list"
                      THEN IF \A i \in 1..Len(data_type.l) : Hashable(data_type.l[i])
                           THEN Ok({data_type.l[i] : i \in 1..Len(data_type.l)}
                                   \cup {JStr(category)})
                           ELSE Raise
                      ELSE IF Hashable(data_type) THEN Ok({data_type, JStr(category)})
                           ELSE Raise
        ELSE Ok({JStr(category)})

\* the body of the inner loop of get_data_types_set: the types one record adds
RecordTypes(category, data) ==
    LET c == ContainsAtType(data)
    IN  IF c.raised THEN Raise
        ELSE IF c.val
        THEN IF data.kind # "obj" THEN Raise
             ELSE LET data_type == GetKey(data, AtType)
                  IN  IF data_type.kind = "list"
                      THEN IF \A i \in 1..Len(data_type.l) : Hashable(data_type.l[i])
                           THEN Ok({data_type.l[i] : i \in 1..Len(data_type.l)})
                           ELSE Raise
                      ELSE IF Hashable(data_type) THEN Ok({data_type}) ELSE Raise
        ELSE Ok({JStr(category)})

\* the set types_set, or the exception of the first record that raises
get_data_types_set(structured_data) ==
    LET cells == UNION {{<<c, i>> : i \in 1..Len(structured_data[c].v)} :
                           c \in 1..Len(structured_data)}
        rt(cell) == RecordTypes(structured_data[cell[1]].k, structured_data[cell[1]].v[cell[2]])
    IN  IF \E cell \in cells : rt(cell).raised
        THEN Raise
        ELSE Ok(UNION {rt(cell).val : cell \in cells})

\* str(n) for a natural number n
RECURSIVE Digits(_)
Digits(n) ==
    LET d == <<"0", "1", "2", "3", "4", "5", "6", "7", "8", "9">>
    IN  IF n < 10 THEN <<d[n + 1]>> ELSE Digits(n \div 10) \o <<d[(n % 10) + 1]>>

\* ', '.join(l) for a list l of str
RECURSIVE Join(_)
Join(l) ==
    IF Len(l) = 0 THEN <<>>
    ELSE IF Len(l) = 1 THEN l[1].s
    ELSE l[1].s \o <<",", " ">> \o Join(Tail(l))

\* f"{v}": the text of a value inside an f-string (a dict or a list by its
\* brackets only: such an @type never passes get_data_types_set)
Format(v) ==
    CASE v.kind = "str" -> v.s
      [] v.kind = "num" -> Digits(v.n)
      [] v.kind = "null" -> <<"N", "o", "n", "e">>
      [] v.kind = "list" -> <<"[", "]">>
      [] v.kind = "obj" -> <<"{", "}">>

\* a faulty key: the suffix is given only when the type of data_list[i] is the
\* type of another record of data_list
FlattenKeyByTypeCount(category, data_list, i) ==
    LET TypeOf(data) == IF data.kind = "obj" /\ HasKey(data, AtType)
                        THEN GetKey(data, AtType) ELSE JStr(category)
        data == data_list[i + 1]
    IN  IF data.kind # "obj" THEN Raise
        ELSE LET got == TypeOf(data)
                 joined == IF got.kind # "list" THEN Ok(got)
                           ELSE IF \A j \in 1..Len(got.l) : IsStr(got.l[j])
                                THEN Ok(JStr(Join(got.l)))
                                ELSE Raise
             IN  IF joined.raised THEN Raise
                 ELSE IF \E j \in 1..Len(data_list) : j # i + 1 /\ TypeOf(data_list[j]) = got
                      THEN Ok(JStr(Format(joined.val) \o <<"_">> \o Digits(i)))
                      ELSE Ok(joined.val)

\* the key flatten_data_for_comparison gives to data_list[i] (i from 0)
FlattenKey(category, data_list, i) ==
    LET data == data_list[i + 1]
    IN  IF data.kind # "obj" THEN Raise
        ELSE LET got == IF HasKey(data, AtType) THEN GetKey(data, AtType) ELSE JStr(category)
                 joined == IF got.kind # "list" THEN Ok(got)
                           ELSE IF \A j \in 1..Len(got.l) : IsStr(got.l[j])
                                THEN Ok(JStr(Join(got.l)))
                                ELSE Raise
             IN  IF joined.raised THEN Raise
                 ELSE IF Len(data_list) > 1
                      THEN Ok(JStr(Format(joined.val) \o <<"_">> \o Digits(i)))
                      ELSE Ok(joined.val)

\* the loops of flatten_data_for_comparison from record i (from 0) of category c
\* on, flattened being the dict built so far
RECURSIVE FlattenFrom(_, _, _, _)
FlattenFrom(structured_data, c, i, flattened) ==
    IF c > Len(structured_data) THEN Ok(flattened)
    ELSE IF i >= Len(structured_data[c].v)
         THEN FlattenFrom(structured_data, c + 1, 0, flattened)
         ELSE LET key == FlattenKey(structured_data[c].k, structured_data[c].v, i)
              IN  IF key.raised THEN Raise
                  ELSE FlattenFrom(structured_data, c, i + 1,
                                   SetKey(flattened, key.val, structured_data[c].v[i + 1]))

\* the dict flattened, its keys in insertion order
flatten_data_for_comparison(structured_data) ==
    FlattenFrom(structured_data, 1, 0, JObj(<<>>))

-----------------------------------------------------------------------------
(* Extraction.  A parsed document (soup) is a record of what the extractors  *)
(* look for:                                                                 *)
(*   scripts  the <script type="application/ld+json"> elements, in order;    *)
(*            each is None (script.string is None), malformed JSON text, or  *)
(*            well-formed JSON text, given by the value it denotes;          *)
(*   items    the elements with itemscope: itemtype ('' when absent) and the *)
(*            descendants with itemprop (content None when absent);          *)
(*   metas    the <meta> elements: property, name, content (None = absent);  *)
(*   title    the text of <title>, None when there is no <title>.            *)

NoString == [kind |-> "null"]

Malformed == [kind |-> "malformed"]

WellFormed(value) == [kind |-> "json", value |-> value]

\* json.loads(script.string or ''): JSONDecodeError on '' and on malformed text
JsonLoads(script) ==
    IF script.kind = "json" THEN Ok(script.value) ELSE Raise

\* a faulty loop: a block that does not parse ends the loop
RECURSIVE ExtractJsonLdStopAtError(_, _)
ExtractJsonLdStopAtError(json_ld_scripts, json_ld_data) ==
    IF Len(json_ld_scripts) = 0 THEN json_ld_data
    ELSE LET data == JsonLoads(Head(json_ld_scripts))
         IN  IF data.raised
             THEN json_ld_data
             ELSE IF data.val.kind = "list"
                  THEN ExtractJsonLdStopAtError(Tail(json_ld_scripts), json_ld_data \o data.val.l)
                  ELSE ExtractJsonLdStopAtError(Tail(json_ld_scripts), Append(json_ld_data, data.val))

\* a faulty loop: an array is appended as one record
RECURSIVE ExtractJsonLdNoFanOut(_, _)
ExtractJsonLdNoFanOut(json_ld_scripts, json_ld_data) ==
    IF Len(json_ld_scripts) = 0 THEN json_ld_data
    ELSE LET data == JsonLoads(Head(json_ld_scripts))
         IN  IF data.raised
             THEN ExtractJsonLdNoFanOut(Tail(json_ld_scripts), json_ld_data)
             ELSE ExtractJsonLdNoFanOut(Tail(json_ld_scripts), Append(json_ld_data, data.val))

\* lines 13-22: the loop of extract_json_ld over the scripts, json_ld_data
\* being the list built so far
RECURSIVE ExtractJsonLdFrom(_, _)
ExtractJsonLdFrom(json_ld_scripts, json_ld_data) ==
    IF Len(json_ld_scripts) = 0 THEN json_ld_data
    ELSE LET data == JsonLoads(Head(json_ld_scripts))
         IN  IF data.raised
             THEN ExtractJsonLdFrom(Tail(json_ld_scripts), json_ld_data)
             ELSE IF data.val.kind = "list"
                  THEN ExtractJsonLdFrom(Tail(json_ld_scripts), json_ld_data \o data.val.l)
                  ELSE ExtractJsonLdFrom(Tail(json_ld_scripts), Append(json_ld_data, data.val))

extract_json_ld(soup) == ExtractJsonLdFrom(soup.scripts, <<>>)

\* lines 37-42: the loop over the itemprop elements of one item
RECURSIVE MicrodataProps(_, _)
MicrodataProps(properties, item_data) ==
    IF Len(properties) = 0 THEN item_data
    ELSE LET prop == Head(properties)
             prop_name == prop.itemprop
             prop_value == IF Truthy(prop.content) THEN prop.content
                           ELSE JStr(Strip(prop.text))
         IN  IF Len(prop_name) > 0 /\ Truthy(prop_value)
             THEN MicrodataProps(Tail(properties), SetKey(item_data, prop_name, prop_value))
             ELSE MicrodataProps(Tail(properties), item_data)

\* lines 31-45: the dict of one item, and whether it is appended
MicrodataItem(item) ==
    LET typed == IF Len(item.itemtype) > 0
                 THEN JObj(<<Item(AtType, JStr(LastSegment(item.itemtype, "/")))>>)
                 ELSE JObj(<<>>)
    IN  MicrodataProps(item.props, typed)

extract_microdata(soup) ==
    SelectSeq([i \in 1..Len(soup.items) |-> MicrodataItem(soup.items[i])], Truthy)

OgPrefix == <<"o","g",":">>

TwitterPrefix == <<"t","w","i","t","t","e","r",":">>

\* the loop of extract_open_graph / extract_twitter_cards over the selected
\* tags: attr is the attribute read, prefix the prefix removed
RECURSIVE PrefixedData(_, _, _, _)
PrefixedData(tags, attr, prefix, data) ==
    IF Len(tags) = 0 THEN data
    ELSE LET tag == Head(tags)
             name == Replace(tag[attr].s, prefix)
             content == IF tag.content = JNull THEN <<>> ELSE tag.content.s
         IN  IF Len(name) > 0 /\ Len(content) > 0
             THEN PrefixedData(Tail(tags), attr, prefix, SetKey(data, name, JStr(content)))
             ELSE PrefixedData(Tail(tags), attr, prefix, data)

\* {'@type': type, **data} if data else {}
WithTypeFirst(type, data) ==
    IF Len(data.items) = 0 THEN JObj(<<>>)
    ELSE IF HasKey(data, AtType)
         THEN JObj(<<Item(AtType, GetKey(data, AtType))>>
                   \o SelectSeq(data.items, LAMBDA it : it.k # AtType))
         ELSE JObj(<<Item(AtType, JStr(type))>> \o data.items)

extract_open_graph(soup) ==
    LET og_tags == SelectSeq(soup.metas,
                             LAMBDA tag : tag.property # JNull /\ StartsWith(tag.property.s, OgPrefix))
    IN  WithTypeFirst(<<"O","p","e","n","G","r","a","p","h">>, PrefixedData(og_tags, "property", OgPrefix, JObj(<<>>)))

extract_twitter_cards(soup) ==
    LET twitter_tags == SelectSeq(soup.metas,
                                  LAMBDA tag : tag.name # JNull /\ StartsWith(tag.name.s, TwitterPrefix))
    IN  WithTypeFirst(<<"T","w","i","t","t","e","r","C","a","r","d">>, PrefixedData(twitter_tags, "name", TwitterPrefix, JObj(<<>>)))

PDescription == <<"d","e","s","c","r","i","p","t","i","o","n">>

PKeywords == <<"k","e","y","w","o","r","d","s">>

PTitle == <<"t","i","t","l","e">>

\* soup.find('meta', attrs={'name': name}): the first such tag, or None
FindMeta(soup, name) ==
    LET found == SelectSeq(soup.metas, LAMBDA tag : tag.name = JStr(name))
    IN  IF Len(found) = 0 THEN JNull ELSE found[1]

\* tag.get('content', '')
ContentOf(tag) == IF tag.content = JNull THEN JStr(<<>>) ELSE tag.content

extract_meta_tags(soup) ==
    LET desc_tag == FindMeta(soup, PDescription)
        keywords_tag == FindMeta(soup, PKeywords)
        d1 == IF desc_tag # JNull
              THEN SetKey(JObj(<<>>), PDescription, ContentOf(desc_tag))
              ELSE JObj(<<>>)
        d2 == IF keywords_tag # JNull
              THEN SetKey(d1, PKeywords, ContentOf(keywords_tag))
              ELSE d1
        d3 == IF soup.title # JNull
              THEN SetKey(d2, PTitle, JStr(Strip(soup.title.s)))
              ELSE d2
    IN  WithTypeFirst(<<"M","e","t","a","T","a","g","s">>, d3)

\* the category names of extract_structured_data
CatJsonLd == <<"J","S","O","N","-","L","D">>

CatMicrodata == <<"M","i","c","r","o","d","a","t","a">>

CatOpenGraph == <<"O","p","e","n","G","r","a","p","h">>

CatTwitterCards == <<"T","w","i","t","t","e","r","C","a","r","d","s">>

CatMetaTags == <<"M","e","t","a","T","a","g","s">>

\* [x] if x else []
ListIf(x) == IF Truthy(x) THEN <<x>> ELSE <<>>

\* a faulty extract_structured_data: the empty categories are kept
ExtractStructuredDataUnfiltered(soup) ==
    <<Item(CatJsonLd, extract_json_ld(soup)),
      Item(CatMicrodata, extract_microdata(soup)),
      Item(CatOpenGraph, ListIf(extract_open_graph(soup))),
      Item(CatTwitterCards, ListIf(extract_twitter_cards(soup))),
      Item(CatMetaTags, ListIf(extract_meta_tags(soup)))>>

\* lines 98-111, soup being the parse of html_content
extract_structured_data(soup) ==
    LET structured_data ==
            <<Item(CatJsonLd, extract_json_ld(soup)),
              Item(CatMicrodata, extract_microdata(soup)),
              Item(CatOpenGraph, ListIf(extract_open_graph(soup))),
              Item(CatTwitterCards, ListIf(extract_twitter_cards(soup))),
              Item(CatMetaTags, ListIf(extract_meta_tags(soup)))>>
    IN  SelectSeq(structured_data, LAMBDA it : Len(it.v) > 0)

-----------------------------------------------------------------------------
(* Inputs of the comparison *)






TEvent == <<"E","v","e","n","t">>

TMusicEvent == <<"M","u","s","i","c","E","v","e","n","t">>

TArticle == <<"A","r","t","i","c","l","e">>

TNewsArticle == <<"N","e","w","s","A","r","t","i","c","l","e">>

TFAQPage == <<"F","A","Q","P","a","g","e">>

TWidget == <<"W","i","d","g","e","t">>

PName == <<"n","a","m","e">>

PPublisher == <<"p","u","b","l","i","s","h","e","r">>


\* a dict with the given @type and properties
Typed(type, props) == JObj(<<Item(AtType, type)>> \o props)

Prop(name) == Item(name, JStr(<<"x">>))

\* an inventory with the given JSON-LD, Microdata and OpenGraph lists, empty
\* categories left out as extract_structured_data leaves them out
Inventory(jsonld, microdata, opengraph) ==
    SelectSeq(<<Item(CatJsonLd, jsonld), Item(CatMicrodata, microdata),
                Item(CatOpenGraph, opengraph)>>,
              LAMBDA it : Len(it.v) > 0)

\* the inventories a competitor document is drawn from
CompetitorInventories ==
    { Inventory(<<>>, <<>>, <<>>),
      Inventory(<<Typed(JStr(TEvent), <<Prop(PName), Prop(PPublisher)>>)>>, <<>>, <<>>),
      Inventory(<<Typed(JStr(TMusicEvent), <<Prop(PName), Prop(PPublisher)>>),
                  Typed(JStr(TEvent), <<Prop(PName)>>)>>, <<>>, <<>>),
      Inventory(<<Typed(JList(<<JStr(TArticle), JStr(TNewsArticle)>>), <<Prop(PName)>>)>>,
                <<JObj(<<Prop(PName)>>)>>, <<>>),
      Inventory(<<Typed(JStr(TFAQPage), <<Prop(PName)>>),
                  Typed(JStr(TWidget), <<Prop(PName)>>)>>, <<>>,
                <<Typed(JStr(CatOpenGraph), <<Prop(PTitle)>>)>>),
      Inventory(<<Typed(JStr(TArticle), <<Prop(PName), Prop(PPublisher)>>)>>, <<>>, <<>>),
      Inventory(<<Typed(JNum(5), <<Prop(PName)>>)>>, <<>>, <<>>) }

\* the inventories the reference document is drawn from
ClientInventories ==
    { Inventory(<<>>, <<>>, <<>>),
      Inventory(<<Typed(JStr(TEvent), <<Prop(PName)>>)>>, <<>>, <<>>),
      Inventory(<<Typed(JStr(TArticle), <<Prop(PName)>>)>>, <<JObj(<<Prop(PName)>>)>>, <<>>) }

\* the number of competitors of a run is at most MaxCompetitors
MaxCompetitors == 2

\* the default name of competitor i, f"Concurrent {i+1}" (i from 0)
DefaultName(i) == <<"C","o","n","c","u","r","r","e","n","t"," ">> \o Digits(i + 1)

\* the dicts competitors_data over the given inventories: at most
\* MaxCompetitors items, in the order of entry, each under its default name
MapsOver(inventories) ==
    UNION {{[i \in 1..n |-> [name |-> DefaultName(i - 1), data |-> d[i]]] :
               d \in [1..n -> inventories]} :
           n \in 0..MaxCompetitors}

CompetitorMaps == MapsOver(CompetitorInventories)

-----------------------------------------------------------------------------
(* Inputs of the extraction *)

\* a document has at most MaxScripts JSON-LD script elements
MaxScripts == 2

\* a document has at most MaxItems elements with itemscope
MaxItems == 1

SeqsUpTo(S, n) == UNION {[1..k -> S] : k \in 0..n}

\* the contents of a JSON-LD script element
ScriptChoices ==
    { NoString,
      Malformed,
      WellFormed(JObj(<<>>)),
      WellFormed(Typed(JStr(TEvent), <<Prop(PName)>>)),
      WellFormed(JList(<<Typed(JStr(TEvent), <<Prop(PName)>>),
                         Typed(JStr(TFAQPage), <<Prop(PName), Prop(PPublisher)>>)>>)),
      WellFormed(JNum(4)),
      WellFormed(JNull),
      WellFormed(JList(<<JNum(4), JStr(<<"s">>)>>)),
      WellFormed(Typed(JObj(<<Prop(PName)>>), <<Prop(PName)>>)),
      WellFormed(Typed(JList(<<JStr(TArticle), JStr(TNewsArticle)>>), <<Prop(PName)>>)) }

ItemProp(itemprop, content, text) ==
    [itemprop |-> itemprop, content |-> content, text |-> text]

SchemaProduct == <<"h","t","t","p","s",":","/","/","s","c","h","e","m","a",".","o","r","g","/","P","r","o","d","u","c","t">>

\* the elements with itemscope
ItemChoices ==
    { [itemtype |-> SchemaProduct, props |-> <<>>],
      [itemtype |-> SchemaProduct,
       props |-> <<ItemProp(PName, JNull, <<" ", "x", " ">>),
                   ItemProp(<<>>, JStr(<<"y">>), <<>>)>>],
      [itemtype |-> <<>>,
       props |-> <<ItemProp(PName, JStr(<<>>), <<" ">>)>>],
      [itemtype |-> <<"h","t","t","p","s",":","/","/","s","c","h","e","m","a",".","o","r","g","/","E","v","e","n","t">>,
       props |-> <<ItemProp(PName, JStr(<<>>), <<" ", "z", " ">>)>>] }

Meta(property, name, content) ==
    [property |-> property, name |-> name, content |-> content]

\* the <meta> elements and the <title> of a document
HeadChoices ==
    { [metas |-> <<>>, title |-> JNull],
      [metas |-> <<Meta(JStr(OgPrefix \o PTitle), JNull, JStr(<<"x">>)),
                   Meta(JNull, JStr(TwitterPrefix \o PName), JStr(<<"y">>)),
                   Meta(JNull, JStr(PDescription), JNull)>>,
       title |-> JStr(<<" ", "t">>)],
      [metas |-> <<Meta(JStr(OgPrefix \o <<"b","l","o","g",":","t","i","t","l","e">>), JNull, JStr(<<"x">>)),
                   Meta(JNull, JStr(TwitterPrefix \o <<"s","i","t","e">>), JNull)>>,
       title |-> JNull] }

Documents ==
    {[scripts |-> sc, items |-> it, metas |-> h.metas, title |-> h.title] :
        sc \in SeqsUpTo(ScriptChoices, MaxScripts),
        it \in SeqsUpTo(ItemChoices, MaxItems),
        h \in HeadChoices}

EmptyDocument == [scripts |-> <<>>, items |-> <<>>, metas |-> <<>>, title |-> JNull]

\* the text of a text area: blank (empty or white space only), or the HTML
\* of a document, given by what BeautifulSoup(html, 'html.parser') finds in it
BlankText == [blank |-> TRUE, soup |-> EmptyDocument]

HtmlText(soup) == [blank |-> FALSE, soup |-> soup]

-----------------------------------------------------------------------------
VARIABLES
    client_data,        \* compare_structured_data: the inventory of the reference
    competitors_data,   \* compare_structured_data: the ordered dict name -> inventory
    pc,                 \* "idle", "start", "competitors", "done" or "raised"
    client_types,       \* the set client_types
    ci,                 \* number of competitors the outer loop has entered
    pending,            \* elements of missing_types the inner loop has not visited
    missing_data,       \* the dict missing_data
    run,                \* 1 in the first run on the arguments, 2 in the second
    first_report,       \* the report the first run returned
    html,               \* the parsed document given to extract_structured_data
    structured_data,    \* the inventory extract_structured_data returned
    stage,              \* "idle", "html", "extracted", "typed", "flattened", "raised"
    types_set,          \* the result of get_data_types_set(structured_data)
    flattened,          \* the result of flatten_data_for_comparison(structured_data)
    type_name,          \* get_schema_org_example: the argument data_type
    resolved,           \* what get_schema_org_example returned
    rpc,                \* "idle", "call" or "returned"
    client_html,        \* main: the text of the text area of the client
    inputs,             \* main: the competitor widgets, name and text of each
    mpc,                \* main: "idle", "form", "button", "client", "competitors",
                        \* "compare", "comparing", "displayed", "error" or "raised"
    mi,                 \* main: number of entries the current loop has visited
    competitors_html,   \* main: the dict competitors_data, name -> text
    client_structured_data,       \* main: the inventory of the client
    competitors_structured_data,  \* main: the dict name -> inventory
    comparison_results, \* main: what compare_structured_data returned
    display             \* main: the messages and sections shown, in order

cvars == <<client_data, competitors_data, pc, client_types, ci, pending,
           missing_data, run, first_report>>

evars == <<html, structured_data, stage, types_set, flattened>>

rvars == <<type_name, resolved, rpc>>

mvars == <<client_html, inputs, mpc, mi, competitors_html, client_structured_data,
           competitors_structured_data, comparison_results, display>>

vars == <<cvars, evars, rvars, mvars>>

\* no comparison is in progress
CompareIdle ==
    /\ client_data = <<>>
    /\ competitors_data = <<>>
    /\ pc = "idle"
    /\ client_types = {}
    /\ ci = 0
    /\ pending = {}
    /\ missing_data = JObj(<<>>)
    /\ run = 1
    /\ first_report = JNull

\* no extraction is in progress
ExtractIdle ==
    /\ html = EmptyDocument
    /\ structured_data = <<>>
    /\ stage = "idle"
    /\ types_set = {}
    /\ flattened = JObj(<<>>)

\* no call of get_schema_org_example is in progress
ResolveIdle ==
    /\ type_name = <<>>
    /\ resolved = JNull
    /\ rpc = "idle"

\* main is not running
MainIdle ==
    /\ client_html = BlankText
    /\ inputs = <<>>
    /\ mpc = "idle"
    /\ mi = 0
    /\ competitors_html = <<>>
    /\ client_structured_data = <<>>
    /\ competitors_structured_data = <<>>
    /\ comparison_results = JNull
    /\ display = <<>>

-----------------------------------------------------------------------------
(* extract_structured_data and the two functions that read its result *)

InitExtract ==
    /\ CompareIdle
    /\ ResolveIdle
    /\ MainIdle
    /\ html \in Documents
    /\ structured_data = <<>>
    /\ stage = "html"
    /\ types_set = {}
    /\ flattened = JObj(<<>>)

\* lines 96-111
Extract ==
    /\ stage = "html"
    /\ structured_data' = extract_structured_data(html)
    /\ stage' = "extracted"
    /\ UNCHANGED <<html, types_set, flattened, cvars, rvars, mvars>>

\* lines 113-128 on the extracted inventory
TypesSet ==
    /\ stage = "extracted"
    /\ LET types == get_data_types_set(structured_data)
       IN  IF types.raised
           THEN /\ stage' = "raised"
                /\ UNCHANGED types_set
           ELSE /\ stage' = "typed"
                /\ types_set' = types.val
    /\ UNCHANGED <<html, structured_data, flattened, cvars, rvars, mvars>>

\* lines 130-143 on the extracted inventory
Flatten ==
    /\ stage = "typed"
    /\ LET flat == flatten_data_for_comparison(structured_data)
       IN  IF flat.raised
           THEN /\ stage' = "raised"
                /\ UNCHANGED flattened
           ELSE /\ stage' = "flattened"
                /\ flattened' = flat.val
    /\ UNCHANGED <<html, structured_data, types_set, cvars, rvars, mvars>>

NextExtract ==
    \/ Extract
    \/ TypesSet
    \/ Flatten

SpecExtract == InitExtract /\ [][NextExtract]_vars

-----------------------------------------------------------------------------
(* compare_structured_data, one step per iteration of its loops *)

Init ==
    /\ ExtractIdle
    /\ ResolveIdle
    /\ MainIdle
    /\ client_data \in ClientInventories
    /\ competitors_data \in CompetitorMaps
    /\ pc = "start"
    /\ client_types = {}
    /\ ci = 0
    /\ pending = {}
    /\ missing_data = JObj(<<>>)
    /\ run = 1
    /\ first_report = JNull

\* lines 1244-1247: client_types and the empty report
CompareStart ==
    /\ pc = "start"
    /\ LET types == get_data_types_set(client_data)
       IN  IF types.raised
           THEN /\ pc' = "raised"
                /\ UNCHANGED client_types
           ELSE /\ pc' = "competitors"
                /\ client_types' = types.val
    /\ missing_data' = JObj(<<>>)
    /\ ci' = 0
    /\ pending' = {}
    /\ UNCHANGED <<client_data, competitors_data, run, first_report, evars, rvars, mvars>>

\* a faulty missing_types: the client's types are not taken out
MissingTypesNoDifference(competitor_types, types_of_client) ==
    competitor_types

\* line 1255: missing_types = competitor_types - client_types
MissingTypes(competitor_types, types_of_client) ==
    competitor_types \ types_of_client

\* lines 1250-1255: the outer loop enters the next competitor
NextCompetitor ==
    /\ pc = "competitors"
    /\ pending = {}
    /\ ci < Len(competitors_data)
    /\ LET types == get_data_types_set(competitors_data[ci + 1].data)
       IN  IF types.raised
           THEN /\ pc' = "raised"
                /\ UNCHANGED pending
           ELSE /\ pc' = "competitors"
                /\ pending' = MissingTypes(types.val, client_types)
    /\ ci' = ci + 1
    /\ UNCHANGED <<client_data, competitors_data, client_types, missing_data,
                   run, first_report, evars, rvars, mvars>>

\* lines 1258-1263: the entry of data_type, created when it is not there
WithEntry(report, data_type) ==
    IF HasKey(report, data_type) THEN Ok(report)
    ELSE LET example == get_schema_org_example(data_type)
         IN  IF example.raised THEN Raise
             ELSE Ok(SetKey(report, data_type,
                            [competitors_with_data |-> <<>>,
                             example_from_competitor |-> JNull,
                             schema_org_example |-> example.val]))

\* a faulty line 1265: the competitor's name is put first
WithCompetitorFirst(report, data_type, competitor_name) ==
    LET e == GetKey(report, data_type)
    IN  SetKey(report, data_type,
               [e EXCEPT !.competitors_with_data = <<competitor_name>> \o @])

\* line 1265: the competitor's name is appended
WithCompetitor(report, data_type, competitor_name) ==
    LET e == GetKey(report, data_type)
    IN  SetKey(report, data_type,
               [e EXCEPT !.competitors_with_data = Append(@, competitor_name)])

\* data_type in k (line 1270): TypeError unless both are str
KeyContains(data_type, k) ==
    IF IsStr(data_type) /\ IsStr(k) THEN Ok(IsSubstr(data_type.s, k.s)) ELSE Raise

\* a faulty line 1272: the example is dumped without the record's @type
TakeExampleWithoutType(report, data_type, competitor_data) ==
    LET e == GetKey(report, data_type)
        competitor_flattened == flatten_data_for_comparison(competitor_data)
    IN  IF competitor_flattened.raised THEN Raise
        ELSE LET keys == Keys(competitor_flattened.val)
             IN  IF \E i \in 1..Len(keys) : KeyContains(data_type, keys[i]).raised
                 THEN Raise
                 ELSE LET matching_keys ==
                              SelectSeq(keys, LAMBDA k : KeyContains(data_type, k).val)
                          record == GetKey(competitor_flattened.val, matching_keys[1])
                      IN  IF Len(matching_keys) = 0 THEN Ok(report)
                          ELSE Ok(SetKey(report, data_type,
                                 [e EXCEPT !.example_from_competitor =
                                     Dumps(JObj(SelectSeq(record.items,
                                                          LAMBDA it : it.k # AtType)))]))

\* lines 1269-1276: the example of data_type is set from the competitor
TakeExample(report, data_type, competitor_data) ==
    LET e == GetKey(report, data_type)
        competitor_flattened == flatten_data_for_comparison(competitor_data)
    IN  IF competitor_flattened.raised THEN Raise
        ELSE LET keys == Keys(competitor_flattened.val)
             IN  IF \E i \in 1..Len(keys) : KeyContains(data_type, keys[i]).raised
                 THEN Raise
                 ELSE LET matching_keys ==
                              SelectSeq(keys, LAMBDA k : KeyContains(data_type, k).val)
                      IN  IF Len(matching_keys) = 0 THEN Ok(report)
                          ELSE Ok(SetKey(report, data_type,
                                 [e EXCEPT !.example_from_competitor =
                                     Dumps(GetKey(competitor_flattened.val,
                                                  matching_keys[1]))]))

\* a faulty line 1268: an example is taken only while no key has one
WithExampleOnce(report, data_type, competitor_data) ==
    IF \E i \in 1..Len(report.items) : report.items[i].v.example_from_competitor # JNull
    THEN Ok(report)
    ELSE TakeExample(report, data_type, competitor_data)

\* a faulty line 1268: the example is taken from every competitor
WithExampleAlways(report, data_type, competitor_data) ==
    TakeExample(report, data_type, competitor_data)

\* lines 1267-1276: the example is taken when none is set yet
WithExample(report, data_type, competitor_data) ==
    IF GetKey(report, data_type).example_from_competitor # JNull
    THEN Ok(report)
    ELSE TakeExample(report, data_type, competitor_data)

\* lines 1257-1276: the body of the inner loop for data_type
MissingTypeBody(report, data_type, competitor) ==
    LET created == WithEntry(report, data_type)
    IN  IF created.raised THEN Raise
        ELSE WithExample(WithCompetitor(created.val, data_type, competitor.name),
                         data_type, competitor.data)

\* one iteration of the inner loop; missing_types is a set, and the order in
\* which a set is iterated is not fixed by the program
MissingType ==
    /\ pc = "competitors"
    /\ \E data_type \in pending :
          LET body == MissingTypeBody(missing_data, data_type, competitors_data[ci])
          IN  /\ pending' = pending \ {data_type}
              /\ IF body.raised
                 THEN /\ pc' = "raised"
                      /\ UNCHANGED missing_data
                 ELSE /\ pc' = "competitors"
                      /\ missing_data' = body.val
    /\ UNCHANGED <<client_data, competitors_data, client_types, ci, run, first_report, evars, rvars, mvars>>

\* line 1278: return missing_data
Return ==
    /\ pc = "competitors"
    /\ pending = {}
    /\ ci = Len(competitors_data)
    /\ pc' = "done"
    /\ UNCHANGED <<client_data, competitors_data, client_types, ci, pending,
                   missing_data, run, first_report, evars, rvars, mvars>>

\* a second run of compare_structured_data on the same arguments
Rerun ==
    /\ pc = "done"
    /\ run = 1
    /\ run' = 2
    /\ first_report' = missing_data
    /\ pc' = "start"
    /\ UNCHANGED <<client_data, competitors_data, client_types, ci, pending, missing_data,
                   evars, rvars, mvars>>

Next ==
    \/ CompareStart
    \/ NextCompetitor
    \/ MissingType
    \/ Return

Spec == Init /\ [][Next]_vars

\* two runs on the same arguments, the arguments having types to report
InitTwoRuns ==
    /\ Init
    /\ \A i \in 1..Len(competitors_data) :
          ~get_data_types_set(competitors_data[i].data).raised
    /\ client_data = Inventory(<<>>, <<>>, <<>>)
    /\ \A i \in 1..Len(competitors_data) :
          Cardinality(get_data_types_set(competitors_data[i].data).val) > 1

NextTwoRuns ==
    \/ Next
    \/ Rerun

SpecTwoRuns == InitTwoRuns /\ [][NextTwoRuns]_vars

-----------------------------------------------------------------------------
(* get_schema_org_example on its own *)

\* the type names get_schema_org_example is called with: every key of the
\* table, every key in lower case, and names that are no key
TypeNames ==
    {examples[i].key : i \in 1..Len(examples)}
    \cup {LowerKeys[i] : i \in 1..Len(examples)}
    \cup { <<>>, <<"W","i","d","g","e","t">>, <<"J","S","O","N","-","L","D">>, <<"M","i","c","r","o","d","a","t","a">>, <<"E","V","E","N","T">>, <<"m","y","e","v","e","n","t">>, <<"M","y","E","v","e","n","t">>,
           <<"M","u","s","i","c","E","v","e","n","t","X">>, <<"p","a","g","e">>, <<"P","a","g","e">>, <<"T","w","i","t","t","e","r","C","a","r","d","s">>, <<"x","y","z">>, <<"n","e","w","s","a","r","t","i","c","l","e","s">> }

InitResolve ==
    /\ CompareIdle
    /\ ExtractIdle
    /\ MainIdle
    /\ type_name \in TypeNames
    /\ resolved = JNull
    /\ rpc = "call"

\* lines 145-1240, called with the str type_name
Resolve ==
    /\ rpc = "call"
    /\ resolved' = get_schema_org_example(JStr(type_name))
    /\ rpc' = "returned"
    /\ UNCHANGED <<type_name, cvars, evars, mvars>>

NextResolve == Resolve

SpecResolve == InitResolve /\ [][NextResolve]_vars

-----------------------------------------------------------------------------
(* main: one run of the script, from the widgets to what is shown *)

\* most competitor widgets of a run (st.number_input: 1 to 10)
MaxWidgets == 2

\* a name typed in place of the default name of a widget
Rival == <<"R","i","v","a","l">>

\* the HTML a text area holds: a page with no structured data, with one
\* JSON-LD record, with an array of two, and with a block that is a number
MainDocuments ==
    { EmptyDocument,
      [EmptyDocument EXCEPT !.scripts =
          <<WellFormed(Typed(JStr(TEvent), <<Prop(PName)>>))>>],
      [EmptyDocument EXCEPT !.scripts =
          <<WellFormed(JList(<<Typed(JStr(TEvent), <<Prop(PName), Prop(PPublisher)>>),
                               Typed(JStr(TFAQPage), <<Prop(PName)>>)>>))>>],
      [EmptyDocument EXCEPT !.scripts = <<WellFormed(JNum(4))>>] }

\* what a text area can hold
Texts == {BlankText} \cup {HtmlText(soup) : soup \in MainDocuments}

\* the competitor widgets: widget i holds its default name or a typed name,
\* and a text
Widgets ==
    UNION {{w \in [1..n -> [name : {DefaultName(i) : i \in 0..(MaxWidgets - 1)} \cup {Rival},
                            html : Texts]] :
               \A i \in 1..n : w[i].name \in {DefaultName(i - 1), Rival}} :
           n \in 1..MaxWidgets}

\* d[entry.name] = entry, for a dict d held as the sequence of its entries: an
\* existing name keeps its position and takes the new entry
Put(d, entry) ==
    IF \E i \in 1..Len(d) : d[i].name = entry.name
    THEN [i \in 1..Len(d) |-> IF d[i].name = entry.name THEN entry ELSE d[i]]
    ELSE Append(d, entry)

\* what main shows
ErrorNoClient == [st |-> "error", text |-> "Veuillez entrer le code HTML de votre site."]

ErrorNoCompetitor == [st |-> "error", text |-> "Veuillez entrer au moins un concurrent."]

WarningClient == [st |-> "warning", text |-> "Aucune donnée structurée trouvée sur votre site."]

WarningCompetitor(competitor_name) ==
    [st |-> "warning", text |-> "Aucune donnée structurée trouvée pour", name |-> competitor_name]

SuccessNoMissing == [st |-> "success", text |-> "Excellente nouvelle !"]

InfoMissing(n) == [st |-> "info", count |-> n]

Shown(label, data) == [st |-> "json", label |-> label, data |-> data]

Metric(label, value) == [st |-> "metric", label |-> label, value |-> value]

\* lines 1368-1375: the section of the client's inventory
ClientSection(inventory) ==
    IF Len(inventory) > 0
    THEN [c \in 1..Len(inventory) |-> Shown(inventory[c].k, inventory[c].v)]
    ELSE <<WarningClient>>

\* ", ".join(info['competitors_with_data'])
CompetitorsList(info) ==
    Join([i \in 1..Len(info.competitors_with_data) |-> JStr(info.competitors_with_data[i])])

\* lines 1383-1400 and 1405-1411: what is shown and exported for one key
Row(item) ==
    [st |-> "row",
     data_type |-> Format(item.k),
     competitors_list |-> CompetitorsList(item.v),
     example_from_competitor |-> item.v.example_from_competitor,
     schema_org_example |-> item.v.schema_org_example]

\* line 1439: the first key listed for the most competitors
MostCommon(results) ==
    LET n(i) == Len(results.items[i].v.competitors_with_data)
        best == CHOOSE i \in 1..Len(results.items) :
                    /\ \A j \in 1..Len(results.items) : n(j) <= n(i)
                    /\ \A j \in 1..(i - 1) : n(j) < n(i)
    IN  results.items[best].k

\* lines 1378-1443: the section of the missing data
MissingSection(results, total_competitors) ==
    IF Len(results.items) > 0
    THEN <<InfoMissing(Len(results.items))>>
         \o [i \in 1..Len(results.items) |-> Row(results.items[i])]
         \o <<[st |-> "download",
               rows |-> [i \in 1..Len(results.items) |-> Row(results.items[i])]],
              Metric("Types de données manquants", JNum(Len(results.items))),
              Metric("Concurrents analysés", JNum(total_competitors)),
              Metric("Type le plus fréquent", MostCommon(results))>>
    ELSE <<SuccessNoMissing>>

\* a faulty section: an empty inventory is shown as no element
CompetitorSectionNoWarning(competitor_name, competitor_data) ==
    [c \in 1..Len(competitor_data) |->
        Shown(competitor_name, <<competitor_data[c].k, competitor_data[c].v>>)]

\* lines 1449-1457: the section of one competitor
CompetitorSection(competitor_name, competitor_data) ==
    IF Len(competitor_data) > 0
    THEN [c \in 1..Len(competitor_data) |->
             Shown(competitor_name, <<competitor_data[c].k, competitor_data[c].v>>)]
    ELSE <<WarningCompetitor(competitor_name)>>

\* lines 1446-1457: the sections of the competitors, in the order of the dict
RECURSIVE CompetitorSections(_)
CompetitorSections(competitors) ==
    IF Len(competitors) = 0 THEN <<>>
    ELSE CompetitorSection(Head(competitors).name, Head(competitors).data)
         \o CompetitorSections(Tail(competitors))

\* a faulty validation: the competitors are not looked at
ValidationClientOnly(client, competitors) ==
    IF client.blank THEN <<ErrorNoClient>> ELSE <<>>

\* lines 1343-1350: the error that ends the run, none when the run goes on
Validation(client, competitors) ==
    IF client.blank THEN <<ErrorNoClient>>
    ELSE IF Len(competitors) = 0 THEN <<ErrorNoCompetitor>>
    ELSE <<>>

InitMain ==
    /\ CompareIdle
    /\ ExtractIdle
    /\ ResolveIdle
    /\ client_html \in Texts
    /\ inputs \in Widgets
    /\ mpc = "form"
    /\ mi = 0
    /\ competitors_html = <<>>
    /\ client_structured_data = <<>>
    /\ competitors_structured_data = <<>>
    /\ comparison_results = JNull
    /\ display = <<>>

\* lines 1322-1340, one iteration: a widget with a text that is not blank is
\* stored under its name
ReadCompetitor ==
    /\ mpc = "form"
    /\ mi < Len(inputs)
    /\ mi' = mi + 1
    /\ competitors_html' =
          IF ~inputs[mi + 1].html.blank
          THEN Put(competitors_html, inputs[mi + 1])
          ELSE competitors_html
    /\ UNCHANGED <<client_html, inputs, mpc, client_structured_data,
                   competitors_structured_data, comparison_results, display,
                   cvars, evars, rvars>>

\* line 1343: the button is not pressed in this run
NotPressed ==
    /\ mpc = "form"
    /\ mi = Len(inputs)
    /\ mpc' = "end"
    /\ UNCHANGED <<client_html, inputs, mi, competitors_html, client_structured_data,
                   competitors_structured_data, comparison_results, display,
                   cvars, evars, rvars>>

\* lines 1343-1350: the button is pressed
Pressed ==
    /\ mpc = "form"
    /\ mi = Len(inputs)
    /\ LET errors == Validation(client_html, competitors_html)
       IN  /\ display' = errors
           /\ mpc' = IF Len(errors) > 0 THEN "error" ELSE "client"
    /\ UNCHANGED <<client_html, inputs, mi, competitors_html, client_structured_data,
                   competitors_structured_data, comparison_results,
                   cvars, evars, rvars>>

\* line 1354
ExtractClient ==
    /\ mpc = "client"
    /\ client_structured_data' = extract_structured_data(client_html.soup)
    /\ competitors_structured_data' = <<>>
    /\ mi' = 0
    /\ mpc' = "competitors"
    /\ UNCHANGED <<client_html, inputs, competitors_html, comparison_results, display,
                   cvars, evars, rvars>>

\* lines 1357-1359, one iteration
ExtractCompetitor ==
    /\ mpc = "competitors"
    /\ mi < Len(competitors_html)
    /\ competitors_structured_data' =
          Put(competitors_structured_data,
              [name |-> competitors_html[mi + 1].name,
               data |-> extract_structured_data(competitors_html[mi + 1].html.soup)])
    /\ mi' = mi + 1
    /\ UNCHANGED <<client_html, inputs, mpc, competitors_html, client_structured_data,
                   comparison_results, display, cvars, evars, rvars>>

\* a faulty main: compare_structured_data is called before the loop over the
\* competitors has ended
CallCompareEarly ==
    /\ mpc = "competitors"
    /\ pc = "idle"
    /\ client_data' = client_structured_data
    /\ competitors_data' = competitors_structured_data
    /\ pc' = "start"
    /\ mpc' = "comparing"
    /\ UNCHANGED <<client_types, ci, pending, missing_data, run, first_report,
                   client_html, inputs, mi, competitors_html, client_structured_data,
                   competitors_structured_data, comparison_results, display,
                   evars, rvars>>

\* line 1362: compare_structured_data is called
CallCompare ==
    /\ mpc = "competitors"
    /\ mi = Len(competitors_html)
    /\ pc = "idle"
    /\ client_data' = client_structured_data
    /\ competitors_data' = competitors_structured_data
    /\ pc' = "start"
    /\ mpc' = "comparing"
    /\ UNCHANGED <<client_types, ci, pending, missing_data, run, first_report,
                   client_html, inputs, mi, competitors_html, client_structured_data,
                   competitors_structured_data, comparison_results, display,
                   evars, rvars>>

\* lines 1362-1457: compare_structured_data has returned, the results are shown
Display ==
    /\ mpc = "comparing"
    /\ pc = "done"
    /\ comparison_results' = missing_data
    /\ display' = ClientSection(client_structured_data)
                  \o MissingSection(missing_data, Len(competitors_structured_data))
                  \o CompetitorSections(competitors_structured_data)
    /\ mpc' = "displayed"
    /\ UNCHANGED <<client_html, inputs, mi, competitors_html, client_structured_data,
                   competitors_structured_data, cvars, evars, rvars>>

\* line 1362: the exception of compare_structured_data leaves main
Propagate ==
    /\ mpc = "comparing"
    /\ pc = "raised"
    /\ mpc' = "raised"
    /\ UNCHANGED <<client_html, inputs, mi, competitors_html, client_structured_data,
                   competitors_structured_data, comparison_results, display,
                   cvars, evars, rvars>>

NextMain ==
    \/ ReadCompetitor
    \/ NotPressed
    \/ Pressed
    \/ ExtractClient
    \/ ExtractCompetitor
    \/ CallCompare
    \/ CompareStart
    \/ NextCompetitor
    \/ MissingType
    \/ Return
    \/ Display
    \/ Propagate

SpecMain == InitMain /\ [][NextMain]_vars

-----------------------------------------------------------------------------
(* Properties of compare_structured_data *)

\* the type set of an inventory that get_data_types_set accepts
TypesOf(inventory) == get_data_types_set(inventory).val

\* the keys of the report
ReportKeys == {missing_data.items[i].k : i \in 1..Len(missing_data.items)}

\* the types of the competitors the outer loop has entered
CompetitorTypes == UNION {TypesOf(competitors_data[i].data) : i \in 1..ci}

\* C1: when compare_structured_data returns, a type is a key of the report
\* if and only if it is in the type set of at least one competitor and not in
\* the type set of the reference; no type of the reference is a key.
C1_KeysAreTheMissingTypes ==
    pc = "done" =>
        /\ \A T \in ReportKeys \cup CompetitorTypes \cup TypesOf(client_data) :
              T \in ReportKeys <=> (T \in CompetitorTypes /\ T \notin TypesOf(client_data))
        /\ ReportKeys \cap TypesOf(client_data) = {}

\* C1 witness: a report with a key, for competitors that also have a type of
\* the reference
C1_Witness ==
    /\ pc = "done"
    /\ ReportKeys # {}
    /\ CompetitorTypes \cap TypesOf(client_data) # {}

\* the property names of a record: its keys other than @type
PropNames(record) == {record.items[i].k : i \in 1..Len(record.items)} \ {AtType}

\* the property names of the index entries of an inventory whose key contains T
PropsMatching(inventory, T) ==
    LET index == flatten_data_for_comparison(inventory).val
    IN  UNION {PropNames(index.items[i].v) :
                  i \in {j \in 1..Len(index.items) : KeyContains(T, index.items[j].k).val}}

\* the properties a competitor has for T and the reference has not
MissingProps(T, competitor_data) ==
    PropsMatching(competitor_data, T) \ PropsMatching(client_data, T)

MissingPropertiesSuffix == <<" ","(","m","i","s","s","i","n","g"," ","p","r","o","p","e","r","t","i","e","s",")">>

\* the types the reference shares with competitor i, the competitor having
\* properties for them that the reference has not
SharedWithMissingProps(i) ==
    {T \in TypesOf(client_data) \cap TypesOf(competitors_data[i].data) :
        MissingProps(T, competitors_data[i].data) # {}}

\* the reference has Article without publisher, every competitor Article with it
ScenarioA ==
    /\ client_data = Inventory(<<Typed(JStr(TArticle), <<Prop(PName)>>)>>,
                               <<JObj(<<Prop(PName)>>)>>, <<>>)
    /\ Len(competitors_data) > 0
    /\ \A i \in 1..Len(competitors_data) :
          competitors_data[i].data =
              Inventory(<<Typed(JStr(TArticle), <<Prop(PName), Prop(PPublisher)>>)>>, <<>>, <<>>)

NamesWith(T) ==
    LET having == SelectSeq([i \in 1..Len(competitors_data) |-> i],
                            LAMBDA i : T \in TypesOf(competitors_data[i].data))
    IN  [j \in 1..Len(having) |-> competitors_data[having[j]].name]

\* C3: in the returned report, competitors_with_data of a key T is the
\* sequence of the names of the competitors whose type set contains T, in the
\* iteration order of the competitor dict, each once, and it is not empty.
C3_CompetitorsInOrder ==
    pc = "done" =>
        \A T \in ReportKeys :
            LET names == GetKey(missing_data, T).competitors_with_data
            IN  /\ names = NamesWith(T)
                /\ Len(names) > 0
                /\ \A a, b \in 1..Len(names) : a # b => names[a] # names[b]

\* C3 witness: one key is listed for both competitors, another for the second
\* competitor only
C3_Witness ==
    /\ pc = "done"
    /\ Len(competitors_data) = 2
    /\ \E T, U \in ReportKeys :
          /\ GetKey(missing_data, T).competitors_with_data =
                <<competitors_data[1].name, competitors_data[2].name>>
          /\ GetKey(missing_data, U).competitors_with_data = <<competitors_data[2].name>>

\* the records of an inventory
RecordsOf(inventory) ==
    UNION {{inventory[c].v[i] : i \in 1..Len(inventory[c].v)} : c \in 1..Len(inventory)}

\* the first competitor, among those entered, whose type set has T
FirstWith(T) ==
    CHOOSE i \in 1..ci :
        /\ T \in TypesOf(competitors_data[i].data)
        /\ \A j \in 1..(i - 1) : T \notin TypesOf(competitors_data[j].data)

\* the example of every key is the text of a record of the first competitor
\* that has the key's type
ExampleFromFirst ==
    pc \in {"competitors", "done"} =>
        \A T \in ReportKeys :
            \E r \in RecordsOf(competitors_data[FirstWith(T)].data) :
                GetKey(missing_data, T).example_from_competitor = Dumps(r)

\* a step of the fold leaves every example that is set as it is
ExampleKept ==
    \A T \in ReportKeys :
        GetKey(missing_data, T).example_from_competitor # JNull =>
            /\ HasKey(missing_data', T)
            /\ GetKey(missing_data', T).example_from_competitor =
                  GetKey(missing_data, T).example_from_competitor

\* C4: example_from_competitor of a key T is taken from the inventory of the
\* first competitor whose type set contains T, and once set no later step of
\* the fold changes it, also when a later competitor has T.
C4_FirstCompetitorExample ==
    /\ []ExampleFromFirst
    /\ [][ExampleKept]_vars

\* C4 witness: a key listed for two competitors, the second of which has a
\* record of the key's type that is not the example
C4_Witness ==
    /\ pc = "done"
    /\ \E T \in ReportKeys :
          /\ Len(GetKey(missing_data, T).competitors_with_data) = 2
          /\ \E r \in RecordsOf(competitors_data[2].data) :
                /\ HasKey(r, AtType)
                /\ GetKey(r, AtType) = T
                /\ Dumps(r) # GetKey(missing_data, T).example_from_competitor

\* C5: two runs of compare_structured_data on the same arguments return the
\* identical report, the order of the keys included.
C5_SameReportTwice ==
    (pc = "done" /\ run = 2) => missing_data = first_report

\* the keys of the canonical table
TableKeys == {examples[i].key : i \in 1..Len(examples)}

\* the keys kept for compatibility, whose examples are WebPage examples
CompatibilityKeys == {<<"O","p","e","n","G","r","a","p","h">>, <<"T","w","i","t","t","e","r","C","a","r","d">>, <<"M","e","t","a","T","a","g","s">>}

\* C10: schema_org_example of a key T is get_schema_org_example(T), from the
\* creation of the entry on; when T is a key of the canonical table other than
\* OpenGraph, TwitterCard and MetaTags, the @type of the example is T.
C10_CanonicalExample ==
    \A T \in ReportKeys :
        LET example == GetKey(missing_data, T).schema_org_example
        IN  /\ example = get_schema_org_example(T).val
            /\ (IsStr(T) /\ T.s \in TableKeys \ CompatibilityKeys)
                  => GetKey(example.of, AtType) = T

\* C10 witness: the reference has no FAQPage, a competitor has, and the report
\* has the key FAQPage with an example of @type FAQPage
C10_Witness ==
    /\ pc = "done"
    /\ JStr(TFAQPage) \notin TypesOf(client_data)
    /\ HasKey(missing_data, JStr(TFAQPage))
    /\ GetKey(GetKey(missing_data, JStr(TFAQPage)).schema_org_example.of, AtType)
          = JStr(TFAQPage)

-----------------------------------------------------------------------------
(* Properties of the extraction *)

\* the extraction has returned
Extracted == stage \notin {"idle", "html"}

\* the list of a category of the extracted inventory, empty when left out
Bucket(category) ==
    LET found == SelectSeq(structured_data, LAMBDA it : it.k = category)
    IN  IF Len(found) = 0 THEN <<>> ELSE found[1].v

\* C6: extract_structured_data followed by get_data_types_set and
\* flatten_data_for_comparison on its result never raises, whatever the
\* document.
C6_NeverRaises ==
    stage # "raised"

\* the number of records a script block stands for: none when it does not
\* parse, its elements when it is an array, itself otherwise
RecordCount(script) ==
    IF script.kind # "json" THEN 0
    ELSE IF script.value.kind = "list" THEN Len(script.value.l)
    ELSE 1

\* the records of a block that parses
BlockRecords(script) ==
    IF script.value.kind = "list" THEN script.value.l ELSE <<script.value>>

RECURSIVE Concat(_)
Concat(seqs) == IF Len(seqs) = 0 THEN <<>> ELSE Head(seqs) \o Concat(Tail(seqs))

\* C7: the JSON-LD records of a document are the records of its blocks that
\* parse, in document order, whatever blocks that do not parse lie between.
C7_UnparsableBlocksSkipped ==
    Extracted =>
        LET parsable == SelectSeq(html.scripts, LAMBDA sc : sc.kind = "json")
        IN  Bucket(CatJsonLd) = Concat([b \in 1..Len(parsable) |-> BlockRecords(parsable[b])])

\* C7 witness: a malformed block before a valid object block gave one record
C7_Witness ==
    /\ stage = "extracted"
    /\ Len(html.scripts) = 2
    /\ html.scripts[1] = Malformed
    /\ html.scripts[2].kind = "json"
    /\ html.scripts[2].value.kind = "obj"
    /\ Len(Bucket(CatJsonLd)) = 1

RECURSIVE RecordsBefore(_)
\* the number of records of the first b script blocks
RecordsBefore(b) ==
    IF b = 0 THEN 0 ELSE RecordsBefore(b - 1) + RecordCount(html.scripts[b])

\* C8: a block that parses to an array of n elements gives n records, in array
\* order and unchanged; a block that parses to another value gives one record.
C8_ArrayFanOut ==
    Extracted =>
        /\ Len(Bucket(CatJsonLd)) = RecordsBefore(Len(html.scripts))
        /\ \A b \in 1..Len(html.scripts) :
              html.scripts[b].kind = "json" =>
                  LET value == html.scripts[b].value
                      first == RecordsBefore(b - 1)
                  IN  IF value.kind = "list"
                      THEN \A j \in 1..Len(value.l) :
                              Bucket(CatJsonLd)[first + j] = value.l[j]
                      ELSE Bucket(CatJsonLd)[first + 1] = value

\* C8 witness: a block of a two-element array after a block of one object
C8_Witness ==
    /\ stage = "extracted"
    /\ Len(html.scripts) = 2
    /\ html.scripts[1].kind = "json"
    /\ html.scripts[1].value.kind = "obj"
    /\ html.scripts[2].kind = "json"
    /\ html.scripts[2].value.kind = "list"
    /\ Len(html.scripts[2].value.l) = 2
    /\ Len(Bucket(CatJsonLd)) = 3

\* C9: every record of an extracted inventory has at least one property
\* besides its @type.
C9_EveryRecordHasAProperty ==
    Extracted =>
        \A r \in RecordsOf(structured_data) :
            r.kind = "obj" => PropNames(r) # {}

-----------------------------------------------------------------------------
(* Properties of get_schema_org_example *)

\* the document get_schema_org_example returned the text of
Resolved == resolved.val.of

\* step 1: the keys equal to the type name
ExactKeys == {i \in 1..Len(examples) : examples[i].key = type_name}

\* step 2: the keys equal to the type name ignoring case
NoCaseKeys == {i \in 1..Len(examples) : Lower(examples[i].key) = Lower(type_name)}

\* step 3 with no case folding: the name is in the key or the key in the name
SubstringKeys ==
    {i \in 1..Len(examples) :
        IsSubstr(type_name, examples[i].key) \/ IsSubstr(examples[i].key, type_name)}

\* step 3 ignoring case
NoCaseSubstringKeys ==
    {i \in 1..Len(examples) :
        \/ IsSubstr(Lower(type_name), Lower(examples[i].key))
        \/ IsSubstr(Lower(examples[i].key), Lower(type_name))}

\* the four steps in priority, step 3 taking the first key of partial in the
\* order of the table
InPriority(partial) ==
    /\ ExactKeys # {} => \E i \in ExactKeys : Resolved = ExampleDoc(i)
    /\ ExactKeys = {} /\ NoCaseKeys # {} => \E i \in NoCaseKeys : Resolved = ExampleDoc(i)
    /\ ExactKeys = {} /\ NoCaseKeys = {} /\ partial # {} =>
          \E i \in partial : (\A j \in partial : i <= j) /\ Resolved = ExampleDoc(i)
    /\ ExactKeys = {} /\ NoCaseKeys = {} /\ partial = {} =>
          Resolved = GenericExample(type_name)

\* C11 as stated: the resolver takes the exact key, else the key equal ignoring
\* case, else the first key in table order that contains the name or is
\* contained in it with no case folding, else the generic example
C11_PriorityNoCaseFolding ==
    rpc = "returned" => ~resolved.raised /\ InPriority(SubstringKeys)

\* C11 amended: the resolver takes the exact key, else the key equal ignoring
\* case, else the first key in table order that contains the name or is
\* contained in it, both in lower case, else the generic example
C11_PriorityIgnoringCase ==
    rpc = "returned" => ~resolved.raised /\ InPriority(NoCaseSubstringKeys)

\* a name resolved by step 3 only because case is ignored, to a key that is
\* not the longest key the name contains
C11_Witness ==
    /\ rpc = "returned"
    /\ ExactKeys = {} /\ NoCaseKeys = {}
    /\ SubstringKeys = {}
    /\ \E i \in NoCaseSubstringKeys, j \in NoCaseSubstringKeys :
          /\ Resolved = ExampleDoc(i)
          /\ Len(examples[j].key) > Len(examples[i].key)

-----------------------------------------------------------------------------
(* The competitor example of a report entry *)

\* the index of the first competitor that has T
IndexOfFirstWith(T) == flatten_data_for_comparison(competitors_data[FirstWith(T)].data).val

\* the first entry of that index whose key contains the type string T
FirstEntryContaining(T) ==
    LET index == IndexOfFirstWith(T).items
        hit == CHOOSE i \in 1..Len(index) :
                   /\ IsSubstr(T.s, index[i].k.s)
                   /\ \A j \in 1..(i - 1) : ~IsSubstr(T.s, index[j].k.s)
    IN  index[hit].v

\* a record without its @type key
WithoutType(record) == JObj(SelectSeq(record.items, LAMBDA it : it.k # AtType))

\* C13 as stated: the example of a key T is the text of the first index entry
\* of the competitor whose key contains T, without the record's @type key
C13_ExampleWithoutType ==
    pc \in {"competitors", "done"} =>
        \A T \in ReportKeys :
            GetKey(missing_data, T).example_from_competitor =
                Dumps(WithoutType(FirstEntryContaining(T)))

\* C13 amended: the example of a key T is the text of the whole record of the
\* first index entry of the competitor whose key contains T, its @type key
\* included
C13_ExampleIsWholeRecord ==
    pc \in {"competitors", "done"} =>
        \A T \in ReportKeys :
            /\ GetKey(missing_data, T).example_from_competitor =
                  Dumps(FirstEntryContaining(T))
            /\ HasKey(FirstEntryContaining(T), AtType) =>
                  HasKey(GetKey(missing_data, T).example_from_competitor.of, AtType)

\* an example with an @type, taken from an index in which a later key
\* contains the type string as well
C13_Witness ==
    /\ pc = "done"
    /\ \E T \in ReportKeys :
          /\ HasKey(GetKey(missing_data, T).example_from_competitor.of, AtType)
          /\ \E i \in 1..Len(IndexOfFirstWith(T).items) :
                /\ IsSubstr(T.s, IndexOfFirstWith(T).items[i].k.s)
                /\ IndexOfFirstWith(T).items[i].v # FirstEntryContaining(T)

-----------------------------------------------------------------------------
(* Properties of main *)

\* what is shown, as a set
Displayed == {display[i] : i \in 1..Len(display)}

\* no text for the client, or no competitor widget with a text
NothingToCompare ==
    \/ client_html.blank
    \/ \A i \in 1..Len(inputs) : inputs[i].html.blank

\* C14: with no reference document or no competitor document,
\* compare_structured_data is never called and no report is made: the run with
\* the button pressed ends with an error message, which no run that gets as far
\* as a report shows
C14_RefusesWithoutDocuments ==
    /\ NothingToCompare =>
          /\ pc = "idle"
          /\ comparison_results = JNull
          /\ mpc \in {"form", "end", "error"}
          /\ mpc = "error" => display \in {<<ErrorNoClient>>, <<ErrorNoCompetitor>>}
    /\ mpc = "error" => NothingToCompare
    /\ mpc = "displayed" =>
          /\ comparison_results # JNull
          /\ \A m \in Displayed : m.st # "error"

\* the button was pressed with a client document and no competitor document
C14_Witness ==
    /\ mpc = "error"
    /\ ~client_html.blank
    /\ display = <<ErrorNoCompetitor>>
    /\ comparison_results = JNull

\* the widgets with a text, and those of them whose document has the type T
WithText == {i \in 1..Len(inputs) : ~inputs[i].html.blank}

WidgetsWith(T) ==
    {i \in WithText : T \in TypesOf(extract_structured_data(inputs[i].html.soup))}

\* C15: every competitor document with a text is extracted and contributes:
\* each of its types that the client lacks is a key of the report, listed once
\* for every document that has it, two documents under one name included
C15_SameLabelBothCount ==
    mpc = "displayed" =>
        /\ Len(competitors_structured_data) = Cardinality(WithText)
        /\ \A i \in WithText :
              \A T \in TypesOf(extract_structured_data(inputs[i].html.soup))
                           \ TypesOf(client_structured_data) :
                  /\ HasKey(comparison_results, T)
                  /\ Len(GetKey(comparison_results, T).competitors_with_data) =
                        Cardinality(WidgetsWith(T))

\* the competitors whose inventory is empty
EmptyCompetitors ==
    {i \in 1..Len(competitors_structured_data) :
        Len(competitors_structured_data[i].data) = 0}

-----------------------------------------------------------------------------
(* Properties of get_data_types_set, of the inventory and of the index *)

\* the records of the inventory, each with its category: <<c, i>> is record i
\* of the c-th category
Cells ==
    UNION {{<<c, i>> : i \in 1..Len(structured_data[c].v)} : c \in 1..Len(structured_data)}

CategoryOf(cell) == structured_data[cell[1]].k

RecordAt(cell) == structured_data[cell[1]].v[cell[2]]

\* the explicit type tags of a record, or the name of its category
TypeTags(cell) ==
    LET record == RecordAt(cell)
    IN  IF record.kind = "obj" /\ HasKey(record, AtType)
        THEN IF GetKey(record, AtType).kind = "list"
             THEN {GetKey(record, AtType).l[j] : j \in 1..Len(GetKey(record, AtType).l)}
             ELSE {GetKey(record, AtType)}
        ELSE {JStr(CategoryOf(cell))}

\* C17: the type set is the union, over the records of every category, of the
\* record's @type (every element of it when it is a list) or, for a record
\* with no @type, of the name of its category, and has nothing else
C17_TypeSetIsUnionOfTags ==
    stage \in {"typed", "flattened"} =>
        types_set = UNION {TypeTags(cell) : cell \in Cells}

\* an inventory with a record whose @type is a list of two and a record with
\* no @type
C17_Witness ==
    /\ stage = "typed"
    /\ \E cell \in Cells :
          /\ HasKey(RecordAt(cell), AtType)
          /\ GetKey(RecordAt(cell), AtType).kind = "list"
          /\ Cardinality(TypeTags(cell)) = 2
          /\ TypeTags(cell) \subseteq types_set
    /\ \E cell \in Cells :
          /\ ~HasKey(RecordAt(cell), AtType)
          /\ JStr(CategoryOf(cell)) \in types_set

\* the categories that are keys of the extracted inventory
Categories == {structured_data[c].k : c \in 1..Len(structured_data)}

\* C18: the extracted inventory has no category with an empty list, and a
\* category is a key of it exactly when its extractor found a record
C18_NoEmptyCategory ==
    Extracted =>
        /\ \A c \in 1..Len(structured_data) : Len(structured_data[c].v) > 0
        /\ \A c, d \in 1..Len(structured_data) :
              structured_data[c].k = structured_data[d].k => c = d
        /\ CatJsonLd \in Categories <=> Len(extract_json_ld(html)) > 0
        /\ CatMicrodata \in Categories <=> Len(extract_microdata(html)) > 0
        /\ CatOpenGraph \in Categories <=> Len(extract_open_graph(html).items) > 0
        /\ CatTwitterCards \in Categories <=> Len(extract_twitter_cards(html).items) > 0
        /\ CatMetaTags \in Categories <=> Len(extract_meta_tags(html).items) > 0
        /\ Categories \subseteq
              {CatJsonLd, CatMicrodata, CatOpenGraph, CatTwitterCards, CatMetaTags}

\* a document with JSON-LD blocks and an itemscope element that give no record,
\* and with meta elements that do: the first two categories are left out
C18_Witness ==
    /\ Extracted
    /\ Len(html.scripts) > 0 /\ Len(html.items) > 0
    /\ CatJsonLd \notin Categories /\ CatMicrodata \notin Categories
    /\ CatOpenGraph \in Categories

\* the keys of the index
FlattenedKeys == {flattened.items[i].k : i \in 1..Len(flattened.items)}

\* the type of a record as flatten_data_for_comparison names it: its @type, a
\* list joined with ", ", or the name of its category
TypeText(cell) ==
    LET record == RecordAt(cell)
    IN  IF HasKey(record, AtType)
        THEN IF GetKey(record, AtType).kind = "list"
             THEN Join(GetKey(record, AtType).l)
             ELSE Format(GetKey(record, AtType))
        ELSE CategoryOf(cell)

\* the records of the category of cell that have the type of cell
SameType(cell) ==
    {other \in Cells : other[1] = cell[1] /\ TypeText(other) = TypeText(cell)}

\* the size of the category of cell
BucketSize(cell) == Len(structured_data[cell[1]].v)

\* C20 as stated: a record whose type T occurs once in its category is keyed
\* "T", also when the category holds records of other types; a record whose
\* type occurs again in its category is keyed "T_ordinal"
C20_SuffixWhenTypeRecurs ==
    stage = "flattened" =>
        \A cell \in Cells :
            IF Cardinality(SameType(cell)) = 1
            THEN JStr(TypeText(cell)) \in FlattenedKeys
            ELSE \E n \in 0..BucketSize(cell) :
                    JStr(TypeText(cell) \o <<"_">> \o Digits(n)) \in FlattenedKeys

\* the key of a record: "T" in a category of one record, "T_i" with i the
\* position of the record, from 0, in a category of more
KeyOf(cell) ==
    IF BucketSize(cell) = 1
    THEN JStr(TypeText(cell))
    ELSE JStr(TypeText(cell) \o <<"_">> \o Digits(cell[2] - 1))

\* C20 amended: the key of a record of type T is "T" when its category holds
\* that record alone, and "T_i", i being the record's position from 0, when
\* the category holds more than one record, whether T occurs again or not;
\* the index has no other key
C20_SuffixWhenBucketHasMore ==
    stage = "flattened" =>
        /\ FlattenedKeys = {KeyOf(cell) : cell \in Cells}
        /\ \A i \in 1..Len(flattened.items) :
              \E cell \in Cells :
                  KeyOf(cell) = flattened.items[i].k /\ RecordAt(cell) = flattened.items[i].v

\* a category of two records of two types: both keys have the suffix, and the
\* bare type is no key
C20_Witness ==
    /\ stage = "flattened"
    /\ \E cell \in Cells :
          /\ BucketSize(cell) = 2
          /\ Cardinality(SameType(cell)) = 1
          /\ KeyOf(cell) \in FlattenedKeys
          /\ JStr(TypeText(cell)) \notin FlattenedKeys

-----------------------------------------------------------------------------
(* Properties of the extractors *)

\* the <meta> elements whose property starts with og:, and those whose name
\* starts with twitter:
OgTags ==
    SelectSeq(html.metas,
              LAMBDA tag : tag.property # JNull /\ StartsWith(tag.property.s, OgPrefix))

TwitterTags ==
    SelectSeq(html.metas,
              LAMBDA tag : tag.name # JNull /\ StartsWith(tag.name.s, TwitterPrefix))

\* the text of s that follows its leading prefix
AfterPrefix(s, prefix) == SubSeq(s, Len(prefix) + 1, Len(s))

\* the list of a category holds one record, of the given type, whose property
\* keys are the given names
OneRecord(category, type, names) ==
    /\ Len(Bucket(category)) = 1
    /\ HasKey(Bucket(category)[1], AtType)
    /\ GetKey(Bucket(category)[1], AtType) = JStr(type)
    /\ PropNames(Bucket(category)[1]) = names

\* C21: a page with a tag of prefix og: has exactly one OpenGraph record, of
\* type OpenGraph, whose keys are the names of the tags after the leading og:,
\* the rest of each name unchanged, and a page with no such tag has no
\* OpenGraph record; the same for twitter: and the type TwitterCard
C21_KeysFollowThePrefix ==
    Extracted =>
        /\ IF Len(OgTags) = 0
           THEN Bucket(CatOpenGraph) = <<>>
           ELSE OneRecord(CatOpenGraph, <<"O","p","e","n","G","r","a","p","h">>,
                          {AfterPrefix(OgTags[i].property.s, OgPrefix) :
                              i \in 1..Len(OgTags)})
        /\ IF Len(TwitterTags) = 0
           THEN Bucket(CatTwitterCards) = <<>>
           ELSE OneRecord(CatTwitterCards, <<"T","w","i","t","t","e","r","C","a","r","d">>,
                          {AfterPrefix(TwitterTags[i].name.s, TwitterPrefix) :
                              i \in 1..Len(TwitterTags)})

\* the properties of one item as the claim has them: the content attribute
\* whenever it is present, the trimmed text only when it is absent
RECURSIVE ContentWheneverPresent(_, _)
ContentWheneverPresent(properties, item_data) ==
    IF Len(properties) = 0 THEN item_data
    ELSE LET prop == Head(properties)
             value == IF prop.content # JNull THEN prop.content.s ELSE Strip(prop.text)
         IN  IF Len(prop.itemprop) > 0 /\ Len(value) > 0
             THEN ContentWheneverPresent(Tail(properties),
                                         SetKey(item_data, prop.itemprop, JStr(value)))
             ELSE ContentWheneverPresent(Tail(properties), item_data)

\* the record of one item with these properties
ItemWithContentWheneverPresent(item) ==
    ContentWheneverPresent(item.props,
        IF Len(item.itemtype) > 0
        THEN JObj(<<Item(AtType, JStr(LastSegment(item.itemtype, "/")))>>)
        ELSE JObj(<<>>))

\* C22: the value of a microdata property is the content attribute of its
\* element whenever the attribute is present and the trimmed text only when it
\* is absent, and a property with an empty name or value is dropped: an
\* element with an empty content attribute gives no property, whatever its
\* text
C22_ContentAttributeFirst ==
    Extracted =>
        Bucket(CatMicrodata) =
            SelectSeq([i \in 1..Len(html.items) |->
                          ItemWithContentWheneverPresent(html.items[i])],
                      Truthy)

\* C24: the index has one entry for every record of the inventory: no two
\* records get the same key, in one category or in two, and every record is
\* the value of its key
C24_IndexLosesNoRecord ==
    stage = "flattened" =>
        /\ Len(flattened.items) = Cardinality(Cells)
        /\ \A cell \in Cells :
              /\ HasKey(flattened, KeyOf(cell))
              /\ GetKey(flattened, KeyOf(cell)) = RecordAt(cell)

-----------------------------------------------------------------------------
(* The order of extraction and comparison in main *)

\* the inventory of the client and of every stored competitor text is there
AllExtracted ==
    /\ client_structured_data = extract_structured_data(client_html.soup)
    /\ Len(competitors_structured_data) = Len(competitors_html)
    /\ \A i \in 1..Len(competitors_html) :
          /\ competitors_structured_data[i].name = competitors_html[i].name
          /\ competitors_structured_data[i].data =
                extract_structured_data(competitors_html[i].html.soup)

\* compare_structured_data has been called: it runs on the inventories of all
\* the documents
ComparesAllInventories ==
    pc # "idle" =>
        /\ AllExtracted
        /\ client_data = client_structured_data
        /\ competitors_data = competitors_structured_data

\* once compare_structured_data has been called no step extracts
NoExtractionAfterCall ==
    pc # "idle" =>
        UNCHANGED <<client_structured_data, competitors_structured_data,
                    client_data, competitors_data>>

\* C23: compare_structured_data starts only when the client's document and
\* every competitor's document have been extracted, and no step of the
\* comparison is interleaved with an extraction.
C23_CompareAfterAllExtractions ==
    /\ []ComparesAllInventories
    /\ [][NoExtractionAfterCall]_vars

\* a comparison in progress on the inventories of two competitors
C23_Witness ==
    /\ pc = "competitors"
    /\ mpc = "comparing"
    /\ Len(competitors_data) = 2
    /\ ci = 1

-----------------------------------------------------------------------------
(* The type of the competitor example, and the order of the set iteration *)

\* the type tags of a record that has an @type
TagsOf(record) ==
    IF GetKey(record, AtType).kind = "list"
    THEN {GetKey(record, AtType).l[j] : j \in 1..Len(GetKey(record, AtType).l)}
    ELSE {GetKey(record, AtType)}

\* record is in the category named T of the inventory
InCategoryNamed(T, record, inventory) ==
    \E c \in 1..Len(inventory) :
        /\ JStr(inventory[c].k) = T
        /\ \E i \in 1..Len(inventory[c].v) : inventory[c].v[i] = record

\* C25: the example of a key T is the text of a record of type T: T is one of
\* the record's type tags, or the record has no @type and is in the category
\* named T; a record of another type whose index key contains T is not taken
C25_ExampleIsOfTheType ==
    pc \in {"competitors", "done"} =>
        \A T \in ReportKeys :
            LET record == GetKey(missing_data, T).example_from_competitor.of
            IN  IF HasKey(record, AtType)
                THEN T \in TagsOf(record)
                ELSE InCategoryNamed(T, record, competitors_data[FirstWith(T)].data)

\* the keys of a report, as a set
KeysOf(report) == {report.items[i].k : i \in 1..Len(report.items)}

\* C26: two runs on the same arguments that iterate the sets of missing types
\* in any two orders return reports with the same keys and, for each key, the
\* same competitors_with_data, example_from_competitor and schema_org_example
C26_ContentIndependentOfOrder ==
    run = 2 /\ pc = "done" =>
        /\ KeysOf(missing_data) = KeysOf(first_report)
        /\ \A T \in KeysOf(first_report) :
              /\ GetKey(missing_data, T).competitors_with_data =
                    GetKey(first_report, T).competitors_with_data
              /\ GetKey(missing_data, T).example_from_competitor =
                    GetKey(first_report, T).example_from_competitor
              /\ GetKey(missing_data, T).schema_org_example =
                    GetKey(first_report, T).schema_org_example

\* two runs over two competitors that returned the keys in different orders
C26_Witness ==
    /\ run = 2
    /\ pc = "done"
    /\ Len(competitors_data) = 2
    /\ Len(first_report.items) > 1
    /\ Keys(missing_data) # Keys(first_report)
    /\ \E T \in KeysOf(first_report) :
          Len(GetKey(missing_data, T).competitors_with_data) = 2

====
